---- MODULE Spec2Model ----
(***************************************************************************)
(* Model of the Mixpanel tracking module (1.0-mixpanel-implementation.ts): *)
(* the readiness flag, the backup queue, the retry cycle started by each   *)
(* initMixpanel call, and the public operations trackEvent, identifyUser   *)
(* and resetUser.  JavaScript runs every handler to completion, so each    *)
(* call and each timer firing is one atomic action.                        *)
(*                                                                         *)
(* Variables of the program: mixpanelDebugMode, mixpanelInitialized,       *)
(* eventBackupQueue, cycles (one closure {retries, pending setTimeout} per *)
(* initMixpanel call).  History variables, read by no action guard:        *)
(* calls (number of trackEvent calls, also the reading of the clock),      *)
(* sinkLog (every event handed to mixpanel.track, in order), callsAtReady  *)
(* (value of calls when the flag first became true) and lastOp (what the   *)
(* last handler did: sink calls, callback invocations, escaped error).     *)
(***************************************************************************)
EXTENDS Integers, Sequences, FiniteSets, TLC

VARIABLES mixpanelDebugMode, mixpanelInitialized, eventBackupQueue, cycles,
          calls, sinkLog, callsAtReady, lastOp,
          invite_codes, invite_redemptions, rpc, profiles, flows, visits

\* the pages of the client: the committed rows of profiles, the runs of
\* handleInviteFlow on the OAuth callback page, and what the sign-up page
\* learnt from validate_invite_code
pageVars == <<profiles, flows, visits>>

\* the database of the invite system: the committed rows of the two tables
\* and the use_invite_code calls in flight
inviteVars == <<invite_codes, invite_redemptions, rpc, pageVars>>

vars == <<mixpanelDebugMode, mixpanelInitialized, eventBackupQueue, cycles,
          calls, sinkLog, callsAtReady, lastOp, inviteVars>>

----------------------------------------------------------------------------
(* Program constants *)

MAX_QUEUE_SIZE == 50

MAX_RETRIES == 3

BACKOFF_BASE_MS == 1000

(* Bounds of the model *)

\* trackEvent calls in a run of Spec
MaxTrackCalls == 2

\* initMixpanel calls in a run of Spec
MaxInitCalls == 2

\* trackEvent calls beyond MAX_QUEUE_SIZE in a run of SpecCapacity
MaxOverflow == 2

\* trackEvent calls in a run of SpecCatalog
MaxCatalogCalls == 2

\* the uses an invite code is created with, at most, in a run of SpecInvite
MaxUses == 2

\* concurrent use_invite_code calls in a run of SpecInvite
MaxCallers == 3

\* visitors who check a code and then use it in a run of SpecValidate
MaxVisitors == 2

\* runs of handleInviteFlow in a run of SpecOAuth
MaxRuns == 2

----------------------------------------------------------------------------
(* Event catalog *)

EventCategory ==
  [USER_ENGAGEMENT |-> "User Engagement", DECISION_FLOW |-> "Decision Flow",
   AI_INTERACTION |-> "AI Interaction", FEEDBACK |-> "Feedback",
   SESSION |-> "Session"]

\* mutant: the feedback button counts as user engagement
EVENT_CATEGORIES_Engagement ==
  [SessionStarted        |-> EventCategory.SESSION,
   SessionEnded          |-> EventCategory.SESSION,
   TimeBetweenSessions   |-> EventCategory.SESSION,
   DiscussionStarted     |-> EventCategory.DECISION_FLOW,
   ProsAndConsGenerated  |-> EventCategory.DECISION_FLOW,
   DecisionCompleted     |-> EventCategory.DECISION_FLOW,
   AbandonedDiscussion   |-> EventCategory.DECISION_FLOW,
   OpenedSummaryView     |-> EventCategory.DECISION_FLOW,
   UserLeftAppMidway     |-> EventCategory.DECISION_FLOW,
   AIInteracted          |-> EventCategory.AI_INTERACTION,
   ClickedAIResponse     |-> EventCategory.AI_INTERACTION,
   FeedbackButtonClicked |-> EventCategory.USER_ENGAGEMENT,
   FeedbackSubmitted     |-> EventCategory.FEEDBACK]

EVENT_CATEGORIES ==
  [SessionStarted        |-> EventCategory.SESSION,
   SessionEnded          |-> EventCategory.SESSION,
   TimeBetweenSessions   |-> EventCategory.SESSION,
   DiscussionStarted     |-> EventCategory.DECISION_FLOW,
   ProsAndConsGenerated  |-> EventCategory.DECISION_FLOW,
   DecisionCompleted     |-> EventCategory.DECISION_FLOW,
   AbandonedDiscussion   |-> EventCategory.DECISION_FLOW,
   OpenedSummaryView     |-> EventCategory.DECISION_FLOW,
   UserLeftAppMidway     |-> EventCategory.DECISION_FLOW,
   AIInteracted          |-> EventCategory.AI_INTERACTION,
   ClickedAIResponse     |-> EventCategory.AI_INTERACTION,
   FeedbackButtonClicked |-> EventCategory.FEEDBACK,
   FeedbackSubmitted     |-> EventCategory.FEEDBACK]

(* A timestamp string is modelled as a sequence: "" is <<>> (falsy in      *)
(* JavaScript), the ISO string of the instant t is <<t>>.                  *)
toISOString(t) == <<t>>

\* a timestamp string the caller supplies: not empty, and no reading of the
\* model's clock
CallerTimestamp == <<0, 0>>

\* The (eventName, payload) pairs the callers of Spec pass to trackEvent.
TrackInputs ==
  { <<"FeedbackSubmitted", [feedback_text |-> "great app"]>>,
    <<"SessionStarted", [timestamp |-> CallerTimestamp,
                         user_type |-> "Guest", platform |-> "web"]>> }

\* The one pair the callers of SpecCapacity pass.
CapacityInputs ==
  { <<"FeedbackSubmitted", [feedback_text |-> "great app"]>> }

\* One payload for each entry of MixpanelEventPayloads (lines 20-76), and for
\* the two kinds whose payload has a timestamp a second one whose timestamp
\* is the empty string.
CatalogInputs ==
  { <<"SessionStarted", [timestamp |-> CallerTimestamp,
                         user_type |-> "Guest", platform |-> "web"]>>,
    <<"SessionStarted", [timestamp |-> <<>>,
                         user_type |-> "Authenticated", platform |-> "mobile"]>>,
    <<"SessionEnded", [duration |-> 9, pages_visited |-> 2]>>,
    <<"TimeBetweenSessions", [interval_in_minutes |-> 5]>>,
    <<"DiscussionStarted", [decision_type |-> "career",
                            timestamp |-> CallerTimestamp]>>,
    <<"DiscussionStarted", [decision_type |-> "travel", timestamp |-> <<>>]>>,
    <<"ProsAndConsGenerated", [models_used |-> <<"a", "b">>,
                               elapsed_time |-> 3]>>,
    <<"DecisionCompleted", [decision_type |-> "career", completion_time |-> 4,
                            was_helpful |-> TRUE]>>,
    <<"AbandonedDiscussion", [inactivity_duration |-> 7,
                              current_step |-> "pros"]>>,
    <<"OpenedSummaryView", [from_step |-> "cons"]>>,
    <<"UserLeftAppMidway", [screen |-> "summary"]>>,
    <<"AIInteracted", [model |-> "a", action_type |-> "copy",
                       response_time |-> 1]>>,
    <<"ClickedAIResponse", [model |-> "b", position |-> 2]>>,
    <<"FeedbackButtonClicked", <<>>>>,
    <<"FeedbackSubmitted", [feedback_text |-> "great app"]>> }

\* what the caller passes as callback: nothing, a function that returns, or
\* a function that throws
CallbackKinds == {"none", "returns", "throws"}

\* mutant: the timestamp is always the call time
enrichedPayloadAlwaysNow(eventName, payload, now) ==
  [f \in DOMAIN payload \cup {"event_category", "timestamp"} |->
     IF f = "event_category" THEN EVENT_CATEGORIES[eventName]
     ELSE IF f = "timestamp" THEN toISOString(now)
          ELSE payload[f]]

\* trackEvent lines 201-205: the payload spread, then event_category and
\* timestamp (payload.timestamp || new Date().toISOString()).
enrichedPayload(eventName, payload, now) ==
  [f \in DOMAIN payload \cup {"event_category", "timestamp"} |->
     IF f = "event_category" THEN EVENT_CATEGORIES[eventName]
     ELSE IF f = "timestamp"
          THEN IF "timestamp" \in DOMAIN payload /\ payload.timestamp # <<>>
               THEN payload.timestamp
               ELSE toISOString(now)
          ELSE payload[f]]

----------------------------------------------------------------------------
(* Backup queue *)

\* mutant: unshift in place of push
EnqueueUnshift(queue, entry) ==
  IF Len(queue) < MAX_QUEUE_SIZE THEN <<entry>> \o queue ELSE queue

\* mutant: <= in place of <
EnqueueOffByOne(queue, entry) ==
  IF Len(queue) <= MAX_QUEUE_SIZE THEN Append(queue, entry) ELSE queue

\* mutant: a full queue gives up its oldest entry for the new one
EnqueueDropOldest(queue, entry) ==
  IF Len(queue) < MAX_QUEUE_SIZE THEN Append(queue, entry)
  ELSE Append(Tail(queue), entry)

\* trackEvent lines 209-218: push while the queue is below MAX_QUEUE_SIZE,
\* otherwise leave it as it is.
Enqueue(queue, entry) ==
  IF Len(queue) < MAX_QUEUE_SIZE THEN Append(queue, entry) ELSE queue

CallsOf(queue) == {queue[i].call : i \in 1..Len(queue)}

\* mutant: pop in place of shift
RECURSIVE FlushLoopPop(_, _, _, _)
FlushLoopPop(queue, sent, failed, failing) ==
  IF Len(queue) = 0
  THEN [queue |-> queue, sent |-> sent, failed |-> failed]
  ELSE LET event == queue[Len(queue)] IN
       FlushLoopPop(SubSeq(queue, 1, Len(queue) - 1),
                    Append(sent, [name |-> event.name, props |-> event.props,
                                  call |-> event.call, via |-> "flush"]),
                    IF event.call \in failing THEN failed \cup {event.call}
                    ELSE failed,
                    failing)

\* mutant: no try/catch around mixpanel.track, the loop ends at the first throw
RECURSIVE FlushLoopStopOnThrow(_, _, _, _)
FlushLoopStopOnThrow(queue, sent, failed, failing) ==
  IF Len(queue) = 0
  THEN [queue |-> queue, sent |-> sent, failed |-> failed]
  ELSE LET event == Head(queue)
           handed == Append(sent, [name |-> event.name, props |-> event.props,
                                   call |-> event.call, via |-> "flush"])
       IN IF event.call \in failing
          THEN [queue |-> Tail(queue), sent |-> handed,
                failed |-> failed \cup {event.call}]
          ELSE FlushLoopStopOnThrow(Tail(queue), handed, failed, failing)

\* mutant: an entry whose send throws is put back and the loop ends, to be
\* retried by a later flush
RECURSIVE FlushLoopBreakOnThrow(_, _, _, _)
FlushLoopBreakOnThrow(queue, sent, failed, failing) ==
  IF Len(queue) = 0
  THEN [queue |-> queue, sent |-> sent, failed |-> failed]
  ELSE LET event == Head(queue)
           handed == Append(sent, [name |-> event.name, props |-> event.props,
                                   call |-> event.call, via |-> "flush"])
       IN IF event.call \in failing
          THEN [queue |-> queue, sent |-> handed,
                failed |-> failed \cup {event.call}]
          ELSE FlushLoopBreakOnThrow(Tail(queue), handed, failed, failing)

\* mutant: the timestamp is written when the entry is sent, after its call
RECURSIVE FlushLoopRestamp(_, _, _, _)
FlushLoopRestamp(queue, sent, failed, failing) ==
  IF Len(queue) = 0
  THEN [queue |-> queue, sent |-> sent, failed |-> failed]
  ELSE LET event == Head(queue) IN
       FlushLoopRestamp(Tail(queue),
                 Append(sent, [name |-> event.name,
                               props |-> [event.props EXCEPT !.timestamp =
                                            toISOString(event.call + 1)],
                               call |-> event.call, via |-> "flush"]),
                 IF event.call \in failing THEN failed \cup {event.call}
                 ELSE failed,
                 failing)

\* flushEventQueue lines 117-126: shift the head, hand it to mixpanel.track,
\* catch what it throws, until the queue is empty.
RECURSIVE FlushLoop(_, _, _, _)
FlushLoop(queue, sent, failed, failing) ==
  IF Len(queue) = 0
  THEN [queue |-> queue, sent |-> sent, failed |-> failed]
  ELSE LET event == Head(queue) IN
       FlushLoop(Tail(queue),
                 Append(sent, [name |-> event.name, props |-> event.props,
                               call |-> event.call, via |-> "flush"]),
                 IF event.call \in failing THEN failed \cup {event.call}
                 ELSE failed,
                 failing)

\* mutant: the entries are read in place (queue[i]) and never removed
flushEventQueueKeep(initialized, queue, failing) ==
  IF ~initialized \/ Len(queue) = 0
  THEN [queue |-> queue, sent |-> <<>>, failed |-> {}]
  ELSE [FlushLoop(queue, <<>>, {}, failing) EXCEPT !.queue = queue]

\* flushEventQueue lines 110-127, with the early return of line 111.
flushEventQueue(initialized, queue, failing) ==
  IF ~initialized \/ Len(queue) = 0
  THEN [queue |-> queue, sent |-> <<>>, failed |-> {}]
  ELSE FlushLoop(queue, <<>>, {}, failing)

\* mutant: no try/catch around the mixpanel.track of line 121
FlushEscapedNoTry(failed) == failed # {}

\* lines 120-124: what mixpanel.track throws in the flush is caught and
\* logged there; nothing reaches the catch of initialize() (line 169).
FlushEscaped(failed) == FALSE

----------------------------------------------------------------------------
(* Console output: the levels a handler writes at *)

\* console.log, always behind `if (mixpanelDebugMode)`: lines 113-115,
\* 141-143, 163-165, 215-217, 225-227, 254-256, 274-276
DebugLines(debug, reached) == IF debug /\ reached THEN {"log"} ELSE {}

\* console.warn of lines 245 and 268, behind the readiness test alone
WarnLines(debug, notReady) == IF notReady THEN {"warn"} ELSE {}

\* mutant: console.error is behind `if (mixpanelDebugMode)` as well
ErrorLinesDebugOnly(debug, failure) ==
  IF debug /\ failure THEN {"error"} ELSE {}

\* console.error in the catch blocks, lines 123, 170, 177, 231, 258, 278:
\* written whatever mixpanelDebugMode is
ErrorLines(debug, failure) == IF failure THEN {"error"} ELSE {}

----------------------------------------------------------------------------
(* Initial state: lines 98, 101, 104 *)

\* the call of a caller that has called nothing yet
IdleCall ==
  [pc |-> "idle", code |-> "NULL", invite_id |-> "NULL", uses_left |-> 0,
   result |-> "none"]

\* a run of handleInviteFlow at its first await: status is the useState of
\* line 494, registered the alreadyRegistered of line 532
NewFlow == [pc |-> "start", status |-> "verifying", registered |-> FALSE]

NoOp ==
  [op |-> "none", readyBefore |-> FALSE, sink |-> <<>>, threw |-> {},
   failed |-> {},
   cb |-> "none", cbCalls |-> 0, escaped |-> "none",
   props |-> FALSE, logged |-> {}]

Init ==
  /\ mixpanelDebugMode = FALSE
  /\ mixpanelInitialized = FALSE
  /\ eventBackupQueue = <<>>
  /\ cycles = <<>>
  /\ calls = 0
  /\ sinkLog = <<>>
  /\ callsAtReady = -1
  /\ lastOp = NoOp
  /\ invite_codes = <<>>
  /\ invite_redemptions = <<>>
  /\ rpc = <<>>
  /\ profiles = <<>>
  /\ flows = <<>>
  /\ visits = <<>>

----------------------------------------------------------------------------
(* Initialization controller: initMixpanel lines 134-184 *)

\* what one run of initialize() meets in the sink: init and register both
\* return, init throws, or init returns and register throws
InitOutcomes == {"ok", "initThrows", "registerThrows"}

\* mutant: retries is a variable of the module, not of the closure
NewCycleSharedCounter ==
  [retries |-> IF cycles = <<>> THEN 0 ELSE cycles[Len(cycles)].retries,
   timer |-> 0, status |-> "running", attempts |-> 0]

\* line 136: the closure of one initMixpanel call.  timer is the delay of the
\* pending setTimeout (0: none); attempts is history, the mixpanel.init calls
\* made so far.
NewCycle ==
  [retries |-> 0, timer |-> 0, status |-> "running", attempts |-> 0]

\* mutant: the success path falls through to the scheduling of a retry
OnInitializeSucceededRetries(c) ==
  [c EXCEPT !.retries = c.retries + 1,
            !.timer = BACKOFF_BASE_MS * 2 ^ (c.retries + 1),
            !.status = "pending"]

\* mutant: setInterval in place of setTimeout, the timer that started the
\* attempt stays pending
OnInitializeSucceededKeepsTimer(c) ==
  [c EXCEPT !.status = "succeeded"]

\* lines 160-168 as far as the closure goes: nothing is scheduled.
OnInitializeSucceeded(c) ==
  [c EXCEPT !.timer = 0, !.status = "succeeded"]

\* mutant: the retry is scheduled before the ceiling is tested
OnInitializeFailedAlwaysSchedules(c) ==
  IF c.retries < MAX_RETRIES
  THEN [c EXCEPT !.retries = c.retries + 1,
                 !.timer = BACKOFF_BASE_MS * 2 ^ (c.retries + 1),
                 !.status = "pending"]
  ELSE [c EXCEPT !.timer = BACKOFF_BASE_MS * 2 ^ c.retries,
                 !.status = "exhausted"]

\* mutant: the delay is computed before retries is incremented
OnInitializeFailedDelayFirst(c) ==
  IF c.retries < MAX_RETRIES
  THEN [c EXCEPT !.retries = c.retries + 1,
                 !.timer = BACKOFF_BASE_MS * 2 ^ c.retries,
                 !.status = "pending"]
  ELSE [c EXCEPT !.timer = 0, !.status = "exhausted"]

\* mutant: the retries++ of line 173 is missing
OnInitializeFailedNoIncrement(c) ==
  IF c.retries < MAX_RETRIES
  THEN [c EXCEPT !.timer = BACKOFF_BASE_MS * 2 ^ c.retries,
                 !.status = "pending"]
  ELSE [c EXCEPT !.timer = 0, !.status = "exhausted"]

\* the catch block, lines 169-179: retry after 1000 * 2^retries ms, retries
\* already incremented, while retries < MAX_RETRIES; otherwise give up.
OnInitializeFailed(c) ==
  IF c.retries < MAX_RETRIES
  THEN [c EXCEPT !.retries = c.retries + 1,
                 !.timer = BACKOFF_BASE_MS * 2 ^ (c.retries + 1),
                 !.status = "pending"]
  ELSE [c EXCEPT !.timer = 0, !.status = "exhausted"]

\* mutant: the flag is assigned the outcome of the attempt
InitializedAfterOutcome(initialized, out) == out = "ok"

\* mutant: the flag is set between mixpanel.init and mixpanel.register
InitializedAfterInit(initialized, out) ==
  IF out # "initThrows" THEN TRUE ELSE initialized

\* line 161: the flag is set when init and register have returned; no other
\* line assigns it.
InitializedAfter(initialized, out) ==
  IF out = "ok" THEN TRUE ELSE initialized

\* mutant: mixpanel.register is called after the try/catch
AttemptFailedInitOnly(out) == out = "initThrows"

\* lines 140-169: an error of mixpanel.init or of mixpanel.register enters the
\* catch
AttemptFailed(out) == out # "ok"

\* mutant: the sink calls are made outside the try
InitializeEscapedNoTry(out) == IF out = "ok" THEN "none" ELSE "sink"

\* the try/catch of lines 140-179 encloses every sink call of initialize():
\* nothing the sink throws leaves it.
InitializeEscaped(out) == "none"

\* The sets of queued events whose mixpanel.track may throw in the flush of an
\* attempt: none, all, the oldest or the newest alone, all but the oldest or
\* the newest.  An attempt that fails flushes nothing.
FailingSets(out, queue) ==
  LET all == CallsOf(queue) IN
  IF out = "ok" /\ Len(queue) > 0
  THEN LET ends == {queue[1].call, queue[Len(queue)].call} IN
       {{}, all} \cup {{c} : c \in ends} \cup {all \ {c} : c \in ends}
  ELSE {{}}

\* One run of initialize() (lines 139-180) for the closure cs[i], as handler
\* `op`.  `failing`: the queued events whose mixpanel.track throws in the flush.
initialize(cs, i, out, failing, op) ==
  LET c == [cs[i] EXCEPT !.attempts = @ + 1]
      ready == InitializedAfter(mixpanelInitialized, out)
      flushed == flushEventQueue(ready, eventBackupQueue, failing)
  IN
  /\ mixpanelInitialized' = ready
  /\ IF ~AttemptFailed(out)
     THEN /\ eventBackupQueue' = flushed.queue
          /\ sinkLog' = sinkLog \o flushed.sent
          /\ callsAtReady' = IF mixpanelInitialized \/ ~ready THEN callsAtReady
                             ELSE calls
          /\ cycles' = [cs EXCEPT ![i] = IF FlushEscaped(flushed.failed)
                                         THEN OnInitializeFailed(c)
                                         ELSE OnInitializeSucceeded(c)]
     ELSE /\ UNCHANGED <<eventBackupQueue, sinkLog, callsAtReady>>
          /\ cycles' = [cs EXCEPT ![i] = OnInitializeFailed(c)]
  /\ lastOp' = [op |-> op, readyBefore |-> mixpanelInitialized,
                sink |-> IF out = "initThrows" THEN <<"init">>
                         ELSE <<"init", "register">>,
                threw |-> IF out = "initThrows" THEN {"init"}
                          ELSE IF out = "registerThrows" THEN {"register"}
                          ELSE {},
                failed |-> IF out = "ok" THEN flushed.failed ELSE {},
                cb |-> "none", cbCalls |-> 0,
                escaped |-> InitializeEscaped(out),
                props |-> FALSE,
                logged |-> DebugLines(mixpanelDebugMode', TRUE)
                             \cup ErrorLines(mixpanelDebugMode',
                                             AttemptFailed(out)
                                               \/ flushed.failed # {})]
  /\ UNCHANGED <<calls, inviteVars>>

\* initMixpanel(token, debug): line 135, a fresh closure, then the first run
\* of initialize() (line 183).  At most maxInit calls in a run, with debug
\* among debugArgs, the sink behaving as one of `outcomes`.
InitMixpanel(maxInit, debugArgs, outcomes) ==
  /\ Len(cycles) < maxInit
  /\ \E debug \in debugArgs, out \in outcomes :
       \E failing \in FailingSets(out, eventBackupQueue) :
         /\ mixpanelDebugMode' = debug
         /\ initialize(Append(cycles, NewCycle), Len(cycles) + 1, out,
                       failing, "initMixpanel")

\* the setTimeout of line 175 fires: the next run of initialize().
RetryTimer(outcomes) ==
  \E i \in 1..Len(cycles) :
    /\ cycles[i].timer > 0
    /\ \E out \in outcomes :
         \E failing \in FailingSets(out, eventBackupQueue) :
           /\ UNCHANGED mixpanelDebugMode
           /\ initialize(cycles, i, out, failing, "retryTimer")

----------------------------------------------------------------------------
(* Tracking facade: trackEvent lines 194-235 *)

\* what mixpanel.track does with a direct send: it returns (and invokes the
\* callback it was given, if any), or it throws before invoking it
TrackOutcomes == {"returns", "throws"}

\* mutant: while not ready the callback is kept with the queued event and not
\* called
CallbacksDeferred(initialized, cb, track, sync) ==
  IF cb = "none" \/ ~initialized THEN [cbCalls |-> 0, escaped |-> "none"]
  ELSE IF track = "throws"
  THEN [cbCalls |-> 1,
        escaped |-> IF cb = "throws" THEN "callback" ELSE "none"]
  ELSE IF cb = "throws" /\ sync
  THEN [cbCalls |-> 2, escaped |-> "callback"]
  ELSE [cbCalls |-> 1, escaped |-> "none"]

\* The callback invocations of one trackEvent call and the error that leaves
\* it.  Not ready (lines 208-222): the callback is called at line 220 inside
\* the try; if it throws, the catch of line 230 calls it again (line 233),
\* outside any try.  Ready (line 229): the sink is given the callback; if
\* track throws, the catch calls it; if the sink invokes it synchronously and
\* it throws, the error passes through track into the same catch.
Callbacks(initialized, cb, track, sync) ==
  IF cb = "none" THEN [cbCalls |-> 0, escaped |-> "none"]
  ELSE IF ~initialized
  THEN IF cb = "throws" THEN [cbCalls |-> 2, escaped |-> "callback"]
       ELSE [cbCalls |-> 1, escaped |-> "none"]
  ELSE IF track = "throws"
  THEN [cbCalls |-> 1,
        escaped |-> IF cb = "throws" THEN "callback" ELSE "none"]
  ELSE IF cb = "throws" /\ sync
  THEN [cbCalls |-> 2, escaped |-> "callback"]
  ELSE [cbCalls |-> 1, escaped |-> "none"]

\* mutant: the readiness test of line 208 is missing, every event is sent
QueuesEventNever(initialized) == FALSE

\* mutant: every event goes through the queue, ready or not
QueuesEventAlways(initialized) == TRUE

\* line 208: the event is queued, not sent, while the flag is false.
QueuesEvent(initialized) == ~initialized

\* mutant: the event is sent in the try and once more after it
sendDirectTwice(log, entry) == Append(Append(log, entry), entry)

\* line 229: one mixpanel.track call with the name and the enriched payload.
sendDirect(log, entry) == Append(log, entry)

\* One trackEvent(eventName, payload, callback) call, the `call`-th of the
\* run, at clock reading `call`.
trackEvent(eventName, payload, cb, track, sync) ==
  LET call == calls + 1
      props == enrichedPayload(eventName, payload, call)
      cbs == Callbacks(mixpanelInitialized, cb, track, sync)
      queues == QueuesEvent(mixpanelInitialized)
  IN
  /\ calls' = call
  /\ IF queues
     THEN /\ eventBackupQueue' =
               Enqueue(eventBackupQueue,
                       [name |-> eventName, props |-> props, call |-> call])
          /\ UNCHANGED sinkLog
     ELSE /\ sinkLog' = sendDirect(sinkLog,
                                   [name |-> eventName, props |-> props,
                                    call |-> call, via |-> "direct"])
          /\ UNCHANGED eventBackupQueue
  /\ lastOp' = [op |-> "trackEvent", readyBefore |-> mixpanelInitialized,
                sink |-> IF queues THEN <<>> ELSE <<"track">>,
                threw |-> IF ~queues /\ track = "throws"
                          THEN {"track"} ELSE {},
                failed |-> IF ~queues /\ track = "throws"
                           THEN {call} ELSE {},
                cb |-> cb, cbCalls |-> cbs.cbCalls, escaped |-> cbs.escaped,
                props |-> FALSE,
                logged |-> DebugLines(mixpanelDebugMode,
                                      ~queues \/ Len(eventBackupQueue)
                                                   < MAX_QUEUE_SIZE)
                             \cup ErrorLines(mixpanelDebugMode,
                                             (~queues /\ track = "throws")
                                               \/ cbs.cbCalls = 2)]
  /\ UNCHANGED <<mixpanelDebugMode, mixpanelInitialized, cycles, callsAtReady,
                 inviteVars>>

\* A caller tracks one of `inputs`; at most maxCalls calls in a run.
TrackEvent(inputs, maxCalls) ==
  /\ calls < maxCalls
  /\ \E in \in inputs, cb \in CallbackKinds :
       IF mixpanelInitialized
       THEN \E track \in TrackOutcomes :
              \E sync \in IF cb = "throws" /\ track = "returns"
                           THEN BOOLEAN ELSE {FALSE} :
                trackEvent(in[1], in[2], cb, track, sync)
       ELSE trackEvent(in[1], in[2], cb, "returns", FALSE)

----------------------------------------------------------------------------
(* identifyUser lines 242-260, resetUser lines 265-280 *)

\* how far identifyUser gets in the sink: identify throws, identify returns
\* and people.set (called when userProperties is given) throws, or all return
IdentifyOutcomes == {"ok", "identifyThrows", "peopleSetThrows"}

\* mutant: people.set is called whether userProperties is given or not
identifyCallsAlwaysSet(initialized, hasProps, out) ==
  IF ~initialized THEN <<>>
  ELSE IF out = "identifyThrows" THEN <<"identify">>
  ELSE <<"identify", "people.set">>

\* mutant: the readiness test of lines 244-247 is missing
identifyCallsNoGuard(initialized, hasProps, out) ==
  IF out = "identifyThrows" \/ ~hasProps THEN <<"identify">>
  ELSE <<"identify", "people.set">>

\* the sink calls of one identifyUser call, in order
identifyCalls(initialized, hasProps, out) ==
  IF ~initialized THEN <<>>
  ELSE IF out = "identifyThrows" \/ ~hasProps THEN <<"identify">>
  ELSE <<"identify", "people.set">>

IdentifyUser ==
  \E hasProps \in BOOLEAN, out \in IdentifyOutcomes :
    /\ out = "peopleSetThrows" => hasProps
    /\ ~mixpanelInitialized => out = "ok"
    /\ lastOp' = [op |-> "identifyUser", readyBefore |-> mixpanelInitialized,
                  sink |-> identifyCalls(mixpanelInitialized, hasProps, out),
                  threw |-> IF out = "identifyThrows" THEN {"identify"}
                            ELSE IF out = "peopleSetThrows"
                            THEN {"people.set"} ELSE {},
                  failed |-> {}, cb |-> "none", cbCalls |-> 0,
                  escaped |-> "none",
                  props |-> hasProps,
                  logged |->
                    WarnLines(mixpanelDebugMode, ~mixpanelInitialized)
                      \cup DebugLines(mixpanelDebugMode,
                                      mixpanelInitialized /\ out = "ok")
                      \cup ErrorLines(mixpanelDebugMode, out # "ok")]
    /\ UNCHANGED <<mixpanelDebugMode, mixpanelInitialized, eventBackupQueue,
                   cycles, calls, sinkLog, callsAtReady, inviteVars>>

\* mutant: the readiness test of lines 267-270 is missing
resetCallsNoGuard(initialized) == <<"reset">>

\* the sink calls of one resetUser call: none while the flag is false (lines
\* 267-270), else one mixpanel.reset (line 272)
resetCalls(initialized) ==
  IF initialized THEN <<"reset">> ELSE <<>>

ResetUser ==
  \E throws \in BOOLEAN :
    /\ ~mixpanelInitialized => ~throws
    /\ lastOp' = [op |-> "resetUser", readyBefore |-> mixpanelInitialized,
                  sink |-> resetCalls(mixpanelInitialized),
                  threw |-> IF throws THEN {"reset"} ELSE {},
                  failed |-> {}, cb |-> "none", cbCalls |-> 0,
                  escaped |-> "none",
                  props |-> FALSE,
                  logged |->
                    WarnLines(mixpanelDebugMode, ~mixpanelInitialized)
                      \cup DebugLines(mixpanelDebugMode,
                                      mixpanelInitialized /\ ~throws)
                      \cup ErrorLines(mixpanelDebugMode, throws)]
    /\ UNCHANGED <<mixpanelDebugMode, mixpanelInitialized, eventBackupQueue,
                   cycles, calls, sinkLog, callsAtReady, inviteVars>>

----------------------------------------------------------------------------
(* Invite codes: src/unnamed/part_000, tables lines 27-43, use_invite_code
   lines 46-75.  A call of the function runs in one transaction under READ
   COMMITTED: its writes become visible, and its row lock is released, when
   it returns; an error rolls all of it back. *)

\* the codes callers present: the first two of Step 2 (lines 173-179)
InviteCodeNames == {"TBRAIN001", "TBRAIN002"}

\* the variables the tracking module reads and writes
mixpanelVars ==
  <<mixpanelDebugMode, mixpanelInitialized, eventBackupQueue, cycles, calls,
    sinkLog, callsAtReady, lastOp>>

\* the callers of the two functions
Callers == 1..MaxCallers

\* rpc holds the call of every caller that has called something
Call(t) == IF t \in DOMAIN rpc THEN rpc[t] ELSE IdleCall

\* rpc with the call of caller t set to r
SetCall(t, r) ==
  [v \in DOMAIN rpc \cup {t} |-> IF v = t THEN r ELSE rpc[v]]

\* visits[v] is what validate_invite_code answered caller v (valid), whether
\* no use_invite_code call held the row of the code then (quiet), and whether
\* no other statement has begun since (alone).  A statement beginning by t
\* overtakes every caller that is between its validate_invite_code answer and
\* its use_invite_code call.
Overtaken(t) ==
  [v \in DOMAIN visits |->
     IF v # t /\ rpc[v].pc = "validated"
     THEN [visits[v] EXCEPT !.alone = FALSE] ELSE visits[v]]

\* Step 2 (lines 173-179) and generate_invite_codes (lines 97-98): a row with
\* uses_left = max_uses and is_active at its default, TRUE.  code is UNIQUE.
InsertInviteCode ==
  /\ \E code \in InviteCodeNames \ DOMAIN invite_codes, n \in 1..MaxUses :
       invite_codes' =
         [c \in DOMAIN invite_codes \cup {code} |->
            IF c = code
            THEN [max_uses |-> n, uses_left |-> n, is_active |-> TRUE]
            ELSE invite_codes[c]]
  /\ visits' = Overtaken(0)
  /\ UNCHANGED <<invite_redemptions, rpc, profiles, flows, mixpanelVars>>

\* line 34: is_active, TRUE by default, is the switch by which the owner of
\* the table withdraws a code; the UPDATE waits for a row lock like any other.
DeactivateInviteCode ==
  /\ \E code \in DOMAIN invite_codes :
       /\ invite_codes[code].is_active
       /\ \A u \in DOMAIN rpc :
            rpc[u].pc \in {"locked", "updated", "inserted"} =>
              rpc[u].invite_id # code
       /\ invite_codes' = [invite_codes EXCEPT ![code].is_active = FALSE]
  /\ visits' = Overtaken(0)
  /\ UNCHANGED <<invite_redemptions, rpc, profiles, flows, mixpanelVars>>

\* the user_id argument of caller t (line 46): callers 2k-1 and 2k act for
\* the same user, as two tabs of one browser do
UserOf(t) == (t + 1) \div 2

\* mutant: the WHERE clause without line 56
MatchesCodeIgnoresActive(code) ==
  /\ code \in DOMAIN invite_codes
  /\ invite_codes[code].uses_left > 0

\* the WHERE clause of lines 54-56, on the committed rows
MatchesCode(code) ==
  /\ code \in DOMAIN invite_codes
  /\ invite_codes[code].uses_left > 0
  /\ invite_codes[code].is_active = TRUE

\* mutant: the SELECT of lines 52-57 without FOR UPDATE
RowLockedNever(code, t) == FALSE

\* another call holds the row lock FOR UPDATE took (line 57) and has not
\* returned
RowLocked(code, t) ==
  \E u \in DOMAIN rpc \ {t} :
    /\ rpc[u].pc \in {"locked", "updated", "inserted"}
    /\ rpc[u].invite_id = code

\* mutant: the EXISTS of lines 108-113 without line 111
validate_invite_codeIgnoresUses(code) ==
  /\ code \in DOMAIN invite_codes
  /\ invite_codes[code].is_active = TRUE

\* validate_invite_code, lines 105-115: EXISTS over the committed rows, no
\* lock taken, nothing written
validate_invite_code(code) ==
  \E c \in DOMAIN invite_codes :
    /\ c = code
    /\ invite_codes[c].uses_left > 0
    /\ invite_codes[c].is_active = TRUE

\* the client's validateInviteCode, lines 301-325: one rpc call of
\* validate_invite_code; the caller keeps the answer
ValidateInviteCode(t) ==
  /\ Call(t).pc = "idle"
  /\ \E code \in InviteCodeNames :
       /\ rpc' = SetCall(t, [IdleCall EXCEPT !.pc = "validated",
                                             !.code = code])
       /\ visits' =
            [v \in DOMAIN visits \cup {t} |->
               IF v = t
               THEN [valid |-> validate_invite_code(code), alone |-> TRUE,
                     quiet |-> ~RowLocked(code, t)]
               ELSE Overtaken(t)[v]]
  /\ UNCHANGED <<invite_codes, invite_redemptions, profiles, flows,
                 mixpanelVars>>

\* lines 52-62: SELECT ... FOR UPDATE waits while another call holds the
\* lock of a matching row, then reads the committed row; no row: RETURN FALSE.
\* A caller that validated a code presents that code.
SelectForUpdate(t) ==
  /\ Call(t).pc \in {"idle", "validated"}
  /\ \E code \in IF Call(t).pc = "validated" THEN {Call(t).code}
                  ELSE InviteCodeNames :
       /\ MatchesCode(code) => ~RowLocked(code, t)
       /\ rpc' = SetCall(t,
                    IF MatchesCode(code)
                    THEN [IdleCall EXCEPT !.pc = "locked", !.code = code,
                                          !.invite_id = code]
                    ELSE [IdleCall EXCEPT !.pc = "done", !.code = code,
                                          !.result = "FALSE"])
  /\ visits' = Overtaken(t)
  /\ UNCHANGED <<invite_codes, invite_redemptions, profiles, flows,
                 mixpanelVars>>

\* lines 65-67: the new row version, uses_left - 1, not yet committed
UpdateUsesLeft(t) ==
  /\ Call(t).pc = "locked"
  /\ rpc' = [rpc EXCEPT ![t].pc = "updated",
                        ![t].uses_left =
                          invite_codes[rpc[t].invite_id].uses_left - 1]
  /\ UNCHANGED <<invite_codes, invite_redemptions, mixpanelVars, pageVars>>

\* lines 70-71: the INSERT; redeemed_by REFERENCES auth.users(id) (line 41),
\* so a user_id that is no row of auth.users raises and the call rolls back.
InsertRedemption(t) ==
  /\ Call(t).pc = "updated"
  /\ \E userExists \in BOOLEAN :
       rpc' = [rpc EXCEPT ![t] =
                 IF userExists THEN [@ EXCEPT !.pc = "inserted"]
                 ELSE [IdleCall EXCEPT !.pc = "done", !.code = rpc[t].code,
                                       !.result = "error"]]
  /\ UNCHANGED <<invite_codes, invite_redemptions, mixpanelVars, pageVars>>

\* line 73: RETURN TRUE; the transaction commits both writes at once and
\* releases the lock.
ReturnTrue(t) ==
  /\ Call(t).pc = "inserted"
  /\ invite_codes' = [invite_codes EXCEPT
                        ![rpc[t].invite_id].uses_left = rpc[t].uses_left]
  /\ invite_redemptions' =
       Append(invite_redemptions,
              [invite_code_id |-> rpc[t].invite_id,
               redeemed_by |-> UserOf(t)])
  /\ rpc' = [rpc EXCEPT ![t] =
               [IdleCall EXCEPT !.pc = "done", !.code = rpc[t].code,
                                !.result = "TRUE"]]
  /\ UNCHANGED <<mixpanelVars, pageVars>>

\* one step of the use_invite_code call of caller t
use_invite_code(t) ==
  \/ SelectForUpdate(t)
  \/ UpdateUsesLeft(t)
  \/ InsertRedemption(t)
  \/ ReturnTrue(t)

----------------------------------------------------------------------------
(* OAuth callback: src/unnamed/part_000, handleInviteFlow lines 499-610.
   Each await ends a step; run t is made by user UserOf(t) and its
   use_invite_code call is rpc[t]. *)

\* what the profiles INSERT of lines 570-578 can meet: the row is inserted;
\* the server refuses it and supabase-js returns { error } (row-level security
\* is enabled on profiles with policies for SELECT and UPDATE only, lines
\* 118-130; a second row for the same id breaks the primary key); the request
\* itself fails and the await throws
ProfileInsertOutcomes == {"inserted", "refused", "throws"}

\* lines 502-521: the user of the session and the invite code of the URL
GetUser(t) ==
  /\ t \notin DOMAIN flows
  /\ \E found \in BOOLEAN :
       flows' = [v \in DOMAIN flows \cup {t} |->
                   IF v # t THEN flows[v]
                   ELSE IF found THEN [NewFlow EXCEPT !.pc = "checking"]
                   ELSE [NewFlow EXCEPT !.pc = "end", !.status = "error"]]
  /\ UNCHANGED <<invite_codes, invite_redemptions, rpc, profiles, visits,
                 mixpanelVars>>

\* lines 524-528: the profiles row of the user, among the committed rows
HasProfile(u) == u \in DOMAIN profiles

\* lines 524-547: a user with a profile is done, status 'success'
CheckProfile(t) ==
  /\ t \in DOMAIN flows /\ flows[t].pc = "checking"
  /\ flows' = [flows EXCEPT ![t] =
                 IF HasProfile(UserOf(t))
                 THEN [@ EXCEPT !.pc = "end", !.status = "success",
                                !.registered = TRUE]
                 ELSE [@ EXCEPT !.pc = "using"]]
  /\ UNCHANGED <<invite_codes, invite_redemptions, rpc, profiles, visits,
                 mixpanelVars>>

\* lines 550-554: the steps of the use_invite_code call of the run
UseInviteCode(t) ==
  /\ t \in DOMAIN flows /\ flows[t].pc = "using"
  /\ use_invite_code(t)

\* lines 556-567: FALSE or an error ends the run with status 'error'
AfterUseInviteCode(t) ==
  /\ t \in DOMAIN flows /\ flows[t].pc = "using"
  /\ Call(t).pc = "done"
  /\ flows' = [flows EXCEPT ![t] =
                 IF rpc[t].result = "TRUE" THEN [@ EXCEPT !.pc = "redeemed"]
                 ELSE [@ EXCEPT !.pc = "end", !.status = "error"]]
  /\ UNCHANGED <<invite_codes, invite_redemptions, rpc, profiles, visits,
                 mixpanelVars>>

\* line 570: the await throws only when the request fails; the { error } the
\* call returns is not read
InsertProfileThrows(out) == out = "throws"

\* lines 570-578, and the catch of lines 605-609 when the await throws
InsertProfile(t) ==
  /\ t \in DOMAIN flows /\ flows[t].pc = "redeemed"
  /\ \E o \in ProfileInsertOutcomes :
       LET out == IF o = "inserted" /\ HasProfile(UserOf(t))
                  THEN "refused" ELSE o
       IN /\ profiles' =
               IF out = "inserted"
               THEN [u \in DOMAIN profiles \cup {UserOf(t)} |->
                       IF u = UserOf(t)
                       THEN [invite_code_used |-> rpc[t].code]
                       ELSE profiles[u]]
               ELSE profiles
          /\ flows' = [flows EXCEPT ![t] =
                         IF InsertProfileThrows(out)
                         THEN [@ EXCEPT !.pc = "end", !.status = "error"]
                         ELSE [@ EXCEPT !.pc = "profiled"]]
  /\ UNCHANGED <<invite_codes, invite_redemptions, rpc, visits,
                 mixpanelVars>>

\* the code of the row the generate_invite_codes call of run t inserts
GeneratedCode(t) == "NEW" \o ToString(t)

\* lines 581-598: generate_invite_codes (lines 77-101; the row stands for the
\* num_codes rows of its loop, alike but for their random codes), then
\* status 'success'
GenerateInviteCodes(t) ==
  /\ t \in DOMAIN flows /\ flows[t].pc = "profiled"
  /\ invite_codes' =
       [c \in DOMAIN invite_codes \cup {GeneratedCode(t)} |->
          IF c = GeneratedCode(t)
          THEN [max_uses |-> 1, uses_left |-> 1, is_active |-> TRUE]
          ELSE invite_codes[c]]
  /\ flows' = [flows EXCEPT ![t] = [@ EXCEPT !.pc = "end",
                                             !.status = "success"]]
  /\ UNCHANGED <<invite_redemptions, rpc, profiles, visits, mixpanelVars>>

\* one step of run t of handleInviteFlow
handleInviteFlow(t) ==
  \/ GetUser(t)
  \/ CheckProfile(t)
  \/ UseInviteCode(t)
  \/ AfterUseInviteCode(t)
  \/ InsertProfile(t)
  \/ GenerateInviteCodes(t)

----------------------------------------------------------------------------
(* Specifications *)

\* Any callers: up to MaxInitCalls initMixpanel calls, up to MaxTrackCalls
\* trackEvent calls with the payloads of TrackInputs.
Next ==
  \/ InitMixpanel(MaxInitCalls, BOOLEAN, InitOutcomes)
  \/ RetryTimer(InitOutcomes)
  \/ TrackEvent(TrackInputs, MaxTrackCalls)
  \/ IdentifyUser
  \/ ResetUser

Spec == Init /\ [][Next]_vars

\* The documented use: initMixpanel(token) is called once, debug left at its
\* default; the callers track up to MAX_QUEUE_SIZE + MaxOverflow events.
NextCapacity ==
  \/ InitMixpanel(1, {FALSE}, InitOutcomes)
  \/ RetryTimer(InitOutcomes)
  \/ TrackEvent(CapacityInputs, MAX_QUEUE_SIZE + MaxOverflow)

SpecCapacity == Init /\ [][NextCapacity]_vars

\* A sink whose every operation throws, under one initMixpanel call.
NextFailingSink ==
  \/ InitMixpanel(1, BOOLEAN, {"initThrows"})
  \/ RetryTimer({"initThrows"})
  \/ TrackEvent(TrackInputs, MaxTrackCalls)
  \/ IdentifyUser
  \/ ResetUser

SpecFailingSink == Init /\ [][NextFailingSink]_vars

\* Every kind of event of the catalog, under one initMixpanel call.
NextCatalog ==
  \/ InitMixpanel(1, {FALSE}, InitOutcomes)
  \/ RetryTimer(InitOutcomes)
  \/ TrackEvent(CatalogInputs, MaxCatalogCalls)

SpecCatalog == Init /\ [][NextCatalog]_vars

\* The retry cycles alone, with every timer set at line 175 firing in the end
\* (the event loop runs the callback of a pending setTimeout).
NextTermination ==
  \/ InitMixpanel(MaxInitCalls, {FALSE}, InitOutcomes)
  \/ RetryTimer(InitOutcomes)
  \/ TrackEvent(CapacityInputs, MaxTrackCalls)

SpecTermination ==
  Init /\ [][NextTermination]_vars /\ WF_vars(RetryTimer(InitOutcomes))

\* Invite codes are created and MaxCallers users redeem them concurrently.
NextInvite ==
  \/ InsertInviteCode
  \/ DeactivateInviteCode
  \/ \E t \in 1..MaxCallers : use_invite_code(t)

SpecInvite == Init /\ [][NextInvite]_vars

\* The sign-up page: a visitor's code is checked with validate_invite_code
\* (line 305) and used with use_invite_code after the sign-in (line 551).
NextValidate ==
  \/ InsertInviteCode
  \/ DeactivateInviteCode
  \/ \E t \in 1..MaxVisitors : ValidateInviteCode(t)
  \/ \E t \in 1..MaxVisitors : Call(t).pc # "idle" /\ use_invite_code(t)

SpecValidate == Init /\ [][NextValidate]_vars

\* Invite codes exist and MaxRuns runs of the OAuth callback page proceed,
\* interleaved at their awaits.
NextOAuth ==
  \/ InsertInviteCode
  \/ \E t \in 1..MaxRuns : handleInviteFlow(t)

SpecOAuth == Init /\ [][NextOAuth]_vars

----------------------------------------------------------------------------
(* Properties *)

IsInitAttempt(o) == o.op \in {"initMixpanel", "retryTimer"}

Min(a, b) == IF a < b THEN a ELSE b

\* C1 (SpecCapacity): the events handed to mixpanel.track are in the order of
\* their trackEvent calls; every entry handed by the flush precedes every
\* entry sent directly; and once the flag is true nothing is left queued, so
\* no direct send can overtake a queued event.
C1_GlobalFifo ==
  /\ \A i \in 1..(Len(sinkLog) - 1) :
       /\ sinkLog[i].call < sinkLog[i + 1].call
       /\ sinkLog[i].via = "direct" => sinkLog[i + 1].via = "direct"
  /\ mixpanelInitialized => eventBackupQueue = <<>>
  /\ ~mixpanelInitialized => sinkLog = <<>>

\* events were queued, initialization succeeded on a retry and flushed them,
\* and a later event was sent directly
C1_Witness ==
  /\ Len(cycles) = 1 /\ cycles[1].attempts >= 2
  /\ \E i \in 1..(Len(sinkLog) - 1) :
       /\ i >= 2
       /\ sinkLog[i].via = "flush"
       /\ sinkLog[i + 1].via = "direct"

\* C2 (SpecCapacity): when N <= MAX_QUEUE_SIZE trackEvent calls were made
\* before the flag became true, the first N entries handed to mixpanel.track
\* are those N events, by the flush, in call order, each with the name and the
\* enriched payload built at its call, and no later entry is one of them.
C2_QueuedDeliveredInOrder ==
  (mixpanelInitialized /\ callsAtReady <= MAX_QUEUE_SIZE) =>
    /\ Len(sinkLog) >= callsAtReady
    /\ \A i \in 1..Len(sinkLog) :
         IF i <= callsAtReady
         THEN /\ sinkLog[i].call = i
              /\ sinkLog[i].via = "flush"
              /\ \E in \in CapacityInputs :
                   /\ sinkLog[i].name = in[1]
                   /\ sinkLog[i].props = enrichedPayload(in[1], in[2], i)
         ELSE /\ sinkLog[i].call > callsAtReady
              /\ sinkLog[i].via = "direct"

\* exactly MAX_QUEUE_SIZE events were tracked before readiness and flushed
C2_Witness ==
  /\ mixpanelInitialized
  /\ callsAtReady = MAX_QUEUE_SIZE
  /\ Len(sinkLog) >= MAX_QUEUE_SIZE
  /\ sinkLog[MAX_QUEUE_SIZE].via = "flush"

\* C3 (SpecCapacity): the queue never holds more than MAX_QUEUE_SIZE entries,
\* and a trackEvent call made while not ready with the queue full leaves the
\* queue as it was.
C3_QueueBounded ==
  /\ [](Len(eventBackupQueue) <= MAX_QUEUE_SIZE)
  /\ [][(/\ ~mixpanelInitialized
         /\ Len(eventBackupQueue) = MAX_QUEUE_SIZE
         /\ calls' = calls + 1)
        => eventBackupQueue' = eventBackupQueue]_vars

\* a trackEvent call has just met a full queue
C3_Witness ==
  /\ ~mixpanelInitialized
  /\ lastOp.op = "trackEvent"
  /\ calls = MAX_QUEUE_SIZE + 1
  /\ Len(eventBackupQueue) = MAX_QUEUE_SIZE

\* C4 (SpecCapacity): when more than MAX_QUEUE_SIZE trackEvent calls were made
\* before the flag became true, the flush hands over exactly the first
\* MAX_QUEUE_SIZE of them, in call order; the later ones never reach the sink;
\* and no trackEvent call lets an error out unless its own callback threw.
C4_OverflowDropsNewest ==
  /\ (mixpanelInitialized /\ callsAtReady > MAX_QUEUE_SIZE) =>
       /\ Len(sinkLog) >= MAX_QUEUE_SIZE
       /\ \A i \in 1..Len(sinkLog) :
            IF i <= MAX_QUEUE_SIZE
            THEN sinkLog[i].call = i /\ sinkLog[i].via = "flush"
            ELSE sinkLog[i].call > callsAtReady /\ sinkLog[i].via = "direct"
  /\ (lastOp.op = "trackEvent" /\ lastOp.cb # "throws") =>
       lastOp.escaped = "none"

\* MAX_QUEUE_SIZE + 1 events were tracked before readiness, then flushed
C4_Witness ==
  /\ mixpanelInitialized
  /\ callsAtReady = MAX_QUEUE_SIZE + 1
  /\ Len(sinkLog) = MAX_QUEUE_SIZE
  /\ IsInitAttempt(lastOp)

\* C5 (Spec): no event is handed to mixpanel.track twice, whether its send
\* threw or not, and no event that has been handed over is still queued.
C5_SentAtMostOnce ==
  /\ \A i, j \in 1..Len(sinkLog) :
       i < j => sinkLog[i].call # sinkLog[j].call
  /\ \A i \in 1..Len(sinkLog), k \in 1..Len(eventBackupQueue) :
       sinkLog[i].call # eventBackupQueue[k].call

\* a flush handed over two events and a second successful initialization,
\* made with the flag already true, has run flushEventQueue again
C5_Witness ==
  /\ Len(cycles) = 2
  /\ cycles[1].status = "succeeded" /\ cycles[2].status = "succeeded"
  /\ Len(sinkLog) = 2
  /\ sinkLog[1].via = "flush" /\ sinkLog[2].via = "flush"
  /\ IsInitAttempt(lastOp) /\ lastOp.readyBefore

\* C6 (SpecFailingSink): with a sink whose every operation throws, nothing the
\* sink throws leaves initMixpanel, a retry, trackEvent, identifyUser or
\* resetUser (an error leaves only a trackEvent call whose own callback
\* threw), and a callback given to trackEvent is invoked.
C6_FailingSinkContained ==
  /\ lastOp.escaped # "sink"
  /\ lastOp.escaped # "none" => (lastOp.op = "trackEvent" /\ lastOp.cb = "throws")
  /\ (lastOp.op = "trackEvent" /\ lastOp.cb # "none") => lastOp.cbCalls >= 1

\* every attempt of the cycle has failed and a trackEvent call with a
\* callback has just been made
C6_Witness ==
  /\ Len(cycles) = 1 /\ cycles[1].status = "exhausted"
  /\ lastOp.op = "trackEvent"
  /\ lastOp.cb = "returns"
  /\ lastOp.cbCalls = 1

C8_ReadyIsMonotonic ==
  [][mixpanelInitialized => mixpanelInitialized']_vars

\* the flag is true after an initialization attempt that failed while it
\* was already true
C8_Witness ==
  /\ mixpanelInitialized
  /\ IsInitAttempt(lastOp)
  /\ lastOp.readyBefore
  /\ lastOp.threw # {}

\* C9 as claimed (Spec): no run of initialize(), hence no mixpanel.init call,
\* is made while the flag is already true.
C9_NoInitAfterReady ==
  ~(IsInitAttempt(lastOp) /\ lastOp.readyBefore)

\* C9 amended (Spec): while initMixpanel has been called at most once, no
\* run of initialize() is made with the flag already true, and a cycle that
\* has succeeded has no timer pending.
C9_NoInitAfterReadyInOneCycle ==
  /\ Len(cycles) <= 1 => ~(IsInitAttempt(lastOp) /\ lastOp.readyBefore)
  /\ \A i \in 1..Len(cycles) :
       cycles[i].status = "succeeded" => cycles[i].timer = 0

\* the only cycle succeeded on a retry and operations followed
C9_Witness ==
  /\ Len(cycles) = 1
  /\ cycles[1].status = "succeeded"
  /\ cycles[1].attempts >= 2
  /\ mixpanelInitialized
  /\ lastOp.op = "trackEvent"

\* C10 as claimed (SpecFailingSink): a cycle whose every mixpanel.init call
\* threw makes 3 calls in all and has then given up.
C10_ThreeAttemptsThenGiveUp ==
  \A i \in 1..Len(cycles) :
    /\ cycles[i].attempts <= 3
    /\ cycles[i].status = "exhausted" => cycles[i].attempts = 3

\* the module's own variables, without the history variables
progVars ==
  <<mixpanelDebugMode, mixpanelInitialized, eventBackupQueue, cycles>>

\* C11 (SpecCapacity): once the cycle of the single initMixpanel call has
\* given up, no timer is pending and the closure never changes again, the flag
\* is false, every trackEvent call is queued while the queue has room (and
\* only then), and nothing has been handed to the sink.
C11_ExhaustedStaysDown ==
  /\ [](\A i \in 1..Len(cycles) :
          cycles[i].status = "exhausted" =>
            /\ cycles[i].timer = 0
            /\ ~mixpanelInitialized
            /\ sinkLog = <<>>
            /\ Len(eventBackupQueue) = Min(calls, MAX_QUEUE_SIZE)
            /\ lastOp.op = "trackEvent" => lastOp.sink = <<>>)
  /\ [][(cycles # <<>>
         /\ \A i \in 1..Len(cycles) : cycles[i].status = "exhausted")
        => (cycles' = cycles /\ ~mixpanelInitialized')]_vars

\* the cycle has given up and trackEvent calls went on until the queue was
\* full and one more was dropped
C11_Witness ==
  /\ Len(cycles) = 1 /\ cycles[1].status = "exhausted"
  /\ lastOp.op = "trackEvent"
  /\ calls = MAX_QUEUE_SIZE + 1
  /\ Len(eventBackupQueue) = MAX_QUEUE_SIZE

\* C12 (SpecCapacity): the flag is true exactly when the cycle has succeeded;
\* then attempts = failures + 1 (3 mixpanel.init calls after 2 failures), the
\* successful attempt has flushed the whole backlog, no timer is pending and
\* the closure never changes again.
C12_SucceedsOnThirdAttempt ==
  /\ [](Len(cycles) = 1 =>
          /\ mixpanelInitialized <=> cycles[1].status = "succeeded"
          /\ mixpanelInitialized =>
               /\ cycles[1].timer = 0
               /\ cycles[1].attempts = cycles[1].retries + 1
               /\ cycles[1].retries = 2 => cycles[1].attempts = 3
               /\ eventBackupQueue = <<>>
          /\ (IsInitAttempt(lastOp) /\ lastOp.threw = {}) =>
               /\ mixpanelInitialized
               /\ Len(sinkLog) = Min(calls, MAX_QUEUE_SIZE))
  /\ [][mixpanelInitialized => cycles' = cycles]_vars

\* two failures, then the third attempt has just succeeded and flushed
C12_Witness ==
  /\ Len(cycles) = 1
  /\ mixpanelInitialized
  /\ cycles[1].retries = 2 /\ cycles[1].attempts = 3
  /\ IsInitAttempt(lastOp)
  /\ Len(sinkLog) >= 2

\* C13 as claimed (SpecFailingSink): the pending delay is 1000 * 2^n with n
\* the retry count before its increment: 1000, 2000, 4000 ms.
C13_DelayBeforeIncrement ==
  \A i \in 1..Len(cycles) :
    cycles[i].timer > 0 =>
      cycles[i].timer = BACKOFF_BASE_MS * 2 ^ (cycles[i].retries - 1)

\* C13 amended (SpecFailingSink): a timer is pending exactly while the cycle
\* waits for a retry, and its delay is 2000, 4000, 8000 ms after the 1st, 2nd,
\* 3rd failure (1000 * 2^retries, retries read after its increment).
C13_DelayAfterIncrement ==
  \A i \in 1..Len(cycles) :
    /\ cycles[i].timer > 0 <=> cycles[i].status = "pending"
    /\ cycles[i].timer > 0 =>
         \/ cycles[i].retries = 1 /\ cycles[i].timer = 2 * BACKOFF_BASE_MS
         \/ cycles[i].retries = 2 /\ cycles[i].timer = 4 * BACKOFF_BASE_MS
         \/ cycles[i].retries = 3 /\ cycles[i].timer = 8 * BACKOFF_BASE_MS

\* the third failure has scheduled its retry
C13_Witness ==
  /\ Len(cycles) = 1
  /\ cycles[1].attempts = 3
  /\ cycles[1].timer = 8 * BACKOFF_BASE_MS

\* C14 (Spec): identifyUser called while the flag is false calls nothing in
\* the sink, lets no error out and changes no variable of the module; the
\* queue holds events only, and identify / people.set are called by no
\* handler but an identifyUser call made while the flag is true.
C14_IdentifyNotReadyIsDropped ==
  /\ []((lastOp.op = "identifyUser" /\ ~lastOp.readyBefore) =>
          (lastOp.sink = <<>> /\ lastOp.escaped = "none"))
  /\ [](\A k \in 1..Len(lastOp.sink) :
          lastOp.sink[k] \in {"identify", "people.set"} =>
            (lastOp.op = "identifyUser" /\ lastOp.readyBefore))
  /\ [](\A k \in 1..Len(eventBackupQueue) :
          /\ DOMAIN eventBackupQueue[k] = {"name", "props", "call"}
          /\ eventBackupQueue[k].name \in DOMAIN EVENT_CATEGORIES)
  /\ [][lastOp'.op = "identifyUser" =>
          UNCHANGED <<progVars, calls, sinkLog, callsAtReady>>]_vars

\* identifyUser has just been called with events queued, before readiness
C14_Witness ==
  /\ lastOp.op = "identifyUser"
  /\ ~lastOp.readyBefore
  /\ ~mixpanelInitialized
  /\ Len(eventBackupQueue) >= 1

\* C15 (Spec): resetUser calls nothing in the sink while the flag is false and
\* mixpanel.reset once while it is true; it changes no variable of the module
\* and lets no error out, whether reset throws or not.
C15_ResetUser ==
  /\ [](lastOp.op = "resetUser" =>
          /\ lastOp.escaped = "none"
          /\ lastOp.sink = IF lastOp.readyBefore THEN <<"reset">> ELSE <<>>)
  /\ [][lastOp'.op = "resetUser" =>
          UNCHANGED <<progVars, calls, sinkLog, callsAtReady>>]_vars

\* resetUser has just been called while ready and mixpanel.reset threw
C15_Witness ==
  /\ lastOp.op = "resetUser"
  /\ lastOp.readyBefore
  /\ lastOp.threw = {"reset"}
  /\ lastOp.escaped = "none"

\* C16 (SpecCapacity): a trackEvent call made while the flag is false calls
\* nothing in the sink and invokes the callback it was given within the call,
\* whether the event was queued or dropped (once, when the callback returns);
\* an initialization attempt, flush included, invokes no callback.
C16_CallbackAtEnqueueOnly ==
  /\ (lastOp.op = "trackEvent" /\ ~lastOp.readyBefore) =>
       /\ lastOp.sink = <<>>
       /\ lastOp.cb # "none" => lastOp.cbCalls >= 1
       /\ lastOp.cb = "returns" => lastOp.cbCalls = 1
       /\ lastOp.cb = "none" => lastOp.cbCalls = 0
  /\ IsInitAttempt(lastOp) => lastOp.cbCalls = 0

\* a trackEvent call with a callback has just been dropped by a full queue
C16_Witness ==
  /\ ~mixpanelInitialized
  /\ lastOp.op = "trackEvent"
  /\ lastOp.cb = "returns" /\ lastOp.cbCalls = 1
  /\ calls = MAX_QUEUE_SIZE + 1
  /\ Len(eventBackupQueue) = MAX_QUEUE_SIZE

\* C17 (Spec): a trackEvent call made while the flag is true leaves the queue
\* unchanged and hands the sink exactly one more event, the one tracked, with
\* its enriched payload; the callback given with it is invoked.
C17_ReadyTrackSendsOnce ==
  [][(mixpanelInitialized /\ calls' = calls + 1) =>
       /\ eventBackupQueue' = eventBackupQueue
       /\ Len(sinkLog') = Len(sinkLog) + 1
       /\ SubSeq(sinkLog', 1, Len(sinkLog)) = sinkLog
       /\ sinkLog'[Len(sinkLog')].call = calls'
       /\ sinkLog'[Len(sinkLog')].via = "direct"
       /\ \E in \in TrackInputs :
            /\ sinkLog'[Len(sinkLog')].name = in[1]
            /\ sinkLog'[Len(sinkLog')].props =
                 enrichedPayload(in[1], in[2], calls')
       /\ lastOp'.sink = <<"track">>
       /\ lastOp'.cb # "none" => lastOp'.cbCalls >= 1]_vars

\* an event has just been sent directly, with a callback, and track returned
C17_Witness ==
  /\ lastOp.op = "trackEvent"
  /\ lastOp.readyBefore
  /\ lastOp.cb = "returns" /\ lastOp.cbCalls = 1
  /\ lastOp.threw = {}
  /\ Len(sinkLog) >= 1
  /\ sinkLog[Len(sinkLog)].via = "direct"

\* every queue entry and every event handed to the sink
HandledEvents ==
  {eventBackupQueue[k] : k \in 1..Len(eventBackupQueue)}
    \cup {[name |-> sinkLog[k].name, props |-> sinkLog[k].props,
           call |-> sinkLog[k].call] : k \in 1..Len(sinkLog)}

\* props is payload with every field of the caller, but event_category and
\* timestamp, as the caller gave it, and with the catalog's category
CarriesFieldsAndCategory(e, in) ==
  /\ e.name = in[1]
  /\ DOMAIN e.props = DOMAIN in[2] \cup {"event_category", "timestamp"}
  /\ \A f \in DOMAIN in[2] \ {"event_category", "timestamp"} :
       e.props[f] = in[2][f]
  /\ e.props.event_category = EVENT_CATEGORIES[in[1]]
  /\ \E c \in DOMAIN EventCategory : e.props.event_category = EventCategory[c]

\* C18 as claimed (SpecCatalog): every payload in the queue or handed to the
\* sink is the payload of a call with the catalog's category added, and its
\* timestamp is the caller's whenever the caller's payload has one, and the
\* time of the trackEvent call otherwise.
C18_TimestampKeptWhenSupplied ==
  \A e \in HandledEvents :
    \E in \in CatalogInputs :
      /\ CarriesFieldsAndCategory(e, in)
      /\ e.props.timestamp =
           IF "timestamp" \in DOMAIN in[2] THEN in[2].timestamp
           ELSE toISOString(e.call)

\* C18 amended (SpecCatalog): ... its timestamp is the caller's whenever the
\* caller's payload has a timestamp that is not the empty string, and the
\* time of the trackEvent call otherwise.
C18_NonEmptyTimestampKept ==
  \A e \in HandledEvents :
    \E in \in CatalogInputs :
      /\ CarriesFieldsAndCategory(e, in)
      /\ e.props.timestamp =
           IF "timestamp" \in DOMAIN in[2] /\ in[2].timestamp # <<>>
           THEN in[2].timestamp
           ELSE toISOString(e.call)

\* an event with the caller's timestamp was queued and flushed, and one with
\* an empty timestamp was then sent directly with the time of its call
C18_Witness ==
  /\ Len(sinkLog) = 2
  /\ sinkLog[1].via = "flush"
  /\ sinkLog[1].name = "DiscussionStarted"
  /\ sinkLog[1].props.timestamp = CallerTimestamp
  /\ sinkLog[2].via = "direct"
  /\ sinkLog[2].name = "SessionStarted"
  /\ sinkLog[2].props.user_type = "Authenticated"
  /\ sinkLog[2].props.timestamp = toISOString(2)

\* the committed invite_redemptions rows of a code
RedemptionsOf(code) ==
  {k \in 1..Len(invite_redemptions) :
     invite_redemptions[k].invite_code_id = code}

\* C19 (SpecInvite): under every interleaving of the steps of concurrent
\* use_invite_code calls, every code has 0 <= uses_left, at most max_uses
\* redemption rows, and uses_left + its redemption rows = max_uses; the calls
\* that returned TRUE for a code are as many as its redemption rows.
C19_UsesNeverExceedMaxUses ==
  \A code \in DOMAIN invite_codes :
    /\ invite_codes[code].uses_left >= 0
    /\ Cardinality(RedemptionsOf(code)) <= invite_codes[code].max_uses
    /\ invite_codes[code].uses_left + Cardinality(RedemptionsOf(code))
         = invite_codes[code].max_uses
    /\ Cardinality({t \in DOMAIN rpc : rpc[t].result = "TRUE"
                                       /\ rpc[t].code = code})
         = Cardinality(RedemptionsOf(code))

\* more callers than uses: a code created with MaxUses uses is used up, every
\* caller presented it, and one of them was refused
C19_Witness ==
  /\ "TBRAIN001" \in DOMAIN invite_codes
  /\ invite_codes["TBRAIN001"].max_uses = MaxUses
  /\ invite_codes["TBRAIN001"].uses_left = 0
  /\ Cardinality(RedemptionsOf("TBRAIN001")) = MaxUses
  /\ \A t \in Callers : t \in DOMAIN rpc
  /\ \A t \in DOMAIN rpc : rpc[t].pc = "done" /\ rpc[t].code = "TBRAIN001"
  /\ \E t \in DOMAIN rpc : rpc[t].result = "FALSE"

\* C20 (Spec): while the flag is false nothing has been handed to
\* mixpanel.track, and a trackEvent, identifyUser or resetUser call made with
\* the flag false calls nothing in the sink; an initialization attempt that
\* leaves the flag false has called init and register only.
C20_NoSinkCallsBeforeReady ==
  /\ ~mixpanelInitialized => sinkLog = <<>>
  /\ (lastOp.op \in {"trackEvent", "identifyUser", "resetUser"}
      /\ ~lastOp.readyBefore) => lastOp.sink = <<>>
  /\ (IsInitAttempt(lastOp) /\ ~mixpanelInitialized) =>
       /\ lastOp.failed = {}
       /\ \A k \in 1..Len(lastOp.sink) : lastOp.sink[k] \in {"init", "register"}

\* events are queued, a retry is pending, and resetUser has just been called
C20_Witness ==
  /\ ~mixpanelInitialized
  /\ Len(eventBackupQueue) = 2
  /\ \E i \in 1..Len(cycles) : cycles[i].timer > 0
  /\ lastOp.op = "resetUser"

\* the handler of this step was a run of initialize() in which init and
\* register returned
SucceededAttempt(o) == IsInitAttempt(o) /\ o.threw = {}

\* C21 (SpecCapacity): in an initialization attempt that succeeds, whatever
\* sends of the flush throw, every entry the queue held is handed to
\* mixpanel.track once, oldest first, and the queue is left empty.
C21_DrainSurvivesFailingSends ==
  [][SucceededAttempt(lastOp') =>
       /\ eventBackupQueue' = <<>>
       /\ Len(sinkLog') = Len(sinkLog) + Len(eventBackupQueue)
       /\ SubSeq(sinkLog', 1, Len(sinkLog)) = sinkLog
       /\ \A k \in 1..Len(eventBackupQueue) :
            /\ sinkLog'[Len(sinkLog) + k].call = eventBackupQueue[k].call
            /\ sinkLog'[Len(sinkLog) + k].via = "flush"
       /\ lastOp'.failed \subseteq CallsOf(eventBackupQueue)]_vars

\* a full queue has just been flushed, and the send of its oldest entry alone
\* threw
C21_Witness ==
  /\ SucceededAttempt(lastOp)
  /\ lastOp.failed = {1}
  /\ Len(sinkLog) = MAX_QUEUE_SIZE
  /\ eventBackupQueue = <<>>
  /\ sinkLog[MAX_QUEUE_SIZE].call = MAX_QUEUE_SIZE

\* C22 (Spec): the flag is true, and an event has been handed to
\* mixpanel.track, only after an attempt in which mixpanel.init and then
\* mixpanel.register returned; a handler calls track only with the flag true.
C22_RegisterBeforeReadyAndSend ==
  /\ []((mixpanelInitialized \/ sinkLog # <<>>) =>
          \E i \in 1..Len(cycles) : cycles[i].status = "succeeded")
  /\ [](\A k \in 1..Len(lastOp.sink) :
          lastOp.sink[k] = "track" => lastOp.readyBefore)
  /\ [][\A i \in 1..Len(cycles') :
          (/\ cycles'[i].status = "succeeded"
           /\ i \in 1..Len(cycles) => cycles[i].status # "succeeded")
          => /\ IsInitAttempt(lastOp')
             /\ lastOp'.sink = <<"init", "register">>
             /\ lastOp'.threw = {}]_vars
  /\ [][(~mixpanelInitialized /\ mixpanelInitialized') =>
          /\ lastOp'.sink = <<"init", "register">>
          /\ lastOp'.threw = {}]_vars

\* register threw in the first attempt; the retry registered, set the flag and
\* flushed two events
C22_Witness ==
  /\ Len(cycles) = 1
  /\ cycles[1].attempts = 2
  /\ mixpanelInitialized
  /\ lastOp.op = "retryTimer"
  /\ lastOp.sink = <<"init", "register">>
  /\ Len(sinkLog) = 2

\* C23 (Spec): a step that changes the flag is an initialization attempt in
\* which init and register returned; trackEvent, identifyUser and resetUser
\* change neither the flag nor any closure, and an attempt that succeeds
\* leaves retries as it was and no timer, whatever sends of the flush throw.
C23_OnlyInitializeWritesFlag ==
  /\ [][mixpanelInitialized' # mixpanelInitialized => SucceededAttempt(lastOp')]_vars
  /\ [][lastOp'.op \in {"trackEvent", "identifyUser", "resetUser"} =>
          (mixpanelInitialized' = mixpanelInitialized /\ cycles' = cycles)]_vars
  /\ [][SucceededAttempt(lastOp') =>
          /\ mixpanelInitialized'
          /\ \A i \in 1..Len(cycles) :
               /\ cycles'[i].retries = cycles[i].retries
               /\ cycles'[i].timer <= cycles[i].timer
          /\ Len(cycles') > Len(cycles) =>
               (cycles'[Len(cycles')].retries = 0
                /\ cycles'[Len(cycles')].timer = 0)]_vars

\* a retry set the flag and flushed an event, and a direct send threw after
\* it: the flag is true and no retry is pending
C23_Witness ==
  /\ mixpanelInitialized
  /\ Len(cycles) = 1 /\ cycles[1].timer = 0 /\ cycles[1].retries = 1
  /\ lastOp.op = "trackEvent"
  /\ lastOp.threw = {"track"}
  /\ Len(sinkLog) = 2 /\ sinkLog[1].via = "flush"

\* setTimeout calls of a closure (one after each retries++) less the timers
\* that have fired (each started one attempt after the first)
PendingTimers(c) == c.retries - (c.attempts - 1)

\* C24 (Spec): every closure has at most one timer pending, and one exactly
\* while it waits for a retry; an attempt after the first of a closure is
\* started by its timer firing, after the attempt before it failed.
C24_NoConcurrentRetries ==
  /\ [](\A i \in 1..Len(cycles) :
          /\ PendingTimers(cycles[i]) \in {0, 1}
          /\ PendingTimers(cycles[i]) = 1 <=> cycles[i].timer > 0
          /\ cycles[i].timer > 0 <=> cycles[i].status = "pending")
  /\ [][\A i \in 1..Len(cycles) :
          cycles'[i].attempts # cycles[i].attempts =>
            /\ cycles'[i].attempts = cycles[i].attempts + 1
            /\ cycles[i].status = "pending"
            /\ cycles[i].timer > 0
            /\ lastOp'.op = "retryTimer"]_vars

\* the first retry has failed and the second is pending
C24_Witness ==
  /\ Len(cycles) = 1
  /\ lastOp.op = "retryTimer"
  /\ cycles[1].attempts = 2 /\ cycles[1].retries = 2
  /\ cycles[1].timer = 4 * BACKOFF_BASE_MS

\* C25 (Spec): an initMixpanel call adds a closure that starts from retries =
\* 0 and leaves the others as they are; a step changes one closure at most;
\* every closure that gives up has made its MAX_RETRIES + 1 attempts; the
\* attempt that sets the flag is the first to succeed and flushes the queue.
C25_IndependentCycles ==
  /\ [][Len(cycles') = Len(cycles) + 1 =>
          /\ \A i \in 1..Len(cycles) : cycles'[i] = cycles[i]
          /\ cycles'[Len(cycles')].attempts = 1
          /\ cycles'[Len(cycles')].retries =
               IF cycles'[Len(cycles')].status = "pending" THEN 1 ELSE 0]_vars
  /\ [][\A i, j \in 1..Len(cycles) :
          (i # j /\ cycles'[i] # cycles[i]) => cycles'[j] = cycles[j]]_vars
  /\ [](\A i \in 1..Len(cycles) :
          /\ cycles[i].attempts <= MAX_RETRIES + 1
          /\ cycles[i].status = "exhausted" =>
               cycles[i].attempts = MAX_RETRIES + 1)
  /\ [][(~mixpanelInitialized /\ mixpanelInitialized') =>
          /\ eventBackupQueue' = <<>>
          /\ Len(sinkLog') = Len(eventBackupQueue)
          /\ Cardinality({i \in 1..Len(cycles') :
                            cycles'[i].status = "succeeded"}) = 1]_vars

\* two closures wait for a retry at the same time, the first for its last
\* and the second for its first
C25_Witness ==
  /\ Len(cycles) = 2
  /\ cycles[1].retries = MAX_RETRIES /\ cycles[1].timer > 0
  /\ cycles[2].retries = 1 /\ cycles[2].timer > 0
  /\ ~mixpanelInitialized

\* the closure has succeeded or given up, and has no timer pending
Terminated(c) == c.status \in {"succeeded", "exhausted"} /\ c.timer = 0

\* C26 (SpecTermination): retries never decreases and never exceeds
\* MAX_RETRIES; a closure makes MAX_RETRIES + 1 attempts at most; with timers
\* firing, every closure in the end has succeeded or given up, and from then
\* on it never changes.
C26_EveryCycleTerminates ==
  /\ [](\A i \in 1..Len(cycles) :
          /\ cycles[i].retries <= MAX_RETRIES
          /\ cycles[i].attempts <= MAX_RETRIES + 1)
  /\ [][\A i \in 1..Len(cycles) :
          /\ cycles'[i].retries >= cycles[i].retries
          /\ Terminated(cycles[i]) => cycles'[i] = cycles[i]]_vars
  /\ \A i \in 1..MaxInitCalls :
       (Len(cycles) >= i) ~> (Len(cycles) >= i /\ Terminated(cycles[i]))

\* one closure has given up and the other succeeded in its last attempt
C26_Witness ==
  /\ Len(cycles) = 2
  /\ cycles[1].status = "exhausted" /\ cycles[1].timer = 0
  /\ cycles[2].status = "succeeded" /\ cycles[2].retries = MAX_RETRIES
  /\ cycles[2].attempts = MAX_RETRIES + 1

\* C27 as claimed (Spec): no error leaves a trackEvent call, whether the flag
\* is true or false, and also when the callback given to it throws.
C27_TrackEventNeverThrows ==
  lastOp.op = "trackEvent" => lastOp.escaped = "none"

\* C28 as claimed (Spec): a trackEvent call invokes the callback given to it
\* once at most.
C28_CallbackAtMostOnce ==
  lastOp.op = "trackEvent" => lastOp.cbCalls <= 1

\* C29 (Spec): while the flag is true the queue is empty: the attempt that
\* sets the flag leaves it empty and a trackEvent call made after that sends
\* and does not queue.
C29_ReadyMeansQueueEmpty ==
  /\ mixpanelInitialized => eventBackupQueue = <<>>
  /\ callsAtReady >= 0 => (mixpanelInitialized /\ eventBackupQueue = <<>>)
  /\ (lastOp.op = "trackEvent" /\ lastOp.readyBefore) =>
       (eventBackupQueue = <<>> /\ lastOp.sink = <<"track">>)

\* an event was queued and flushed, and a second was tracked after that
C29_Witness ==
  /\ mixpanelInitialized
  /\ callsAtReady = 1 /\ calls = 2
  /\ lastOp.op = "trackEvent" /\ lastOp.readyBefore
  /\ Len(sinkLog) = 2
  /\ sinkLog[1].via = "flush" /\ sinkLog[2].via = "direct"
  /\ eventBackupQueue = <<>>

\* C30 (SpecCatalog): the flush hands over each entry with the name and the
\* payload the queue holds for it, and the timestamp of a flushed event is the
\* caller's or the time of its trackEvent call, never a later one.
C30_QueuedPayloadUnchanged ==
  /\ [][SucceededAttempt(lastOp') =>
          \A k \in 1..Len(eventBackupQueue) :
            /\ Len(sinkLog') >= Len(sinkLog) + k
            /\ sinkLog'[Len(sinkLog) + k].name = eventBackupQueue[k].name
            /\ sinkLog'[Len(sinkLog) + k].props = eventBackupQueue[k].props]_vars
  /\ [](\A k \in 1..Len(sinkLog) :
          sinkLog[k].via = "flush" =>
            sinkLog[k].props.timestamp
              \in {CallerTimestamp, toISOString(sinkLog[k].call)})

\* two events were queued and a retry flushed them after the second call: the
\* first carries the time of the first call
C30_Witness ==
  /\ lastOp.op = "retryTimer"
  /\ callsAtReady = 2
  /\ Len(sinkLog) = 2
  /\ sinkLog[1].via = "flush" /\ sinkLog[1].call = 1
  /\ sinkLog[1].name = "SessionEnded"
  /\ sinkLog[1].props.timestamp = toISOString(1)
  /\ sinkLog[1].props.duration = 9

\* the closure an attempt started from: a fresh one for index Len(cycles) + 1
CycleBefore(i) == IF i > Len(cycles) THEN NewCycle ELSE cycles[i]

\* C31 (SpecTermination): an attempt in which mixpanel.init returns and
\* mixpanel.register throws leaves the flag, the queue and the sink's events
\* as they were, and its closure takes the step of a failed attempt: one more
\* retry scheduled while retries < MAX_RETRIES, otherwise it gives up.
C31_RegisterFailureIsAFailedAttempt ==
  [][(IsInitAttempt(lastOp') /\ lastOp'.threw = {"register"}) =>
       /\ mixpanelInitialized' = mixpanelInitialized
       /\ eventBackupQueue' = eventBackupQueue
       /\ sinkLog' = sinkLog
       /\ lastOp'.sink = <<"init", "register">>
       /\ lastOp'.failed = {}
       /\ \E i \in 1..Len(cycles') :
            /\ cycles'[i].attempts = CycleBefore(i).attempts + 1
            /\ IF CycleBefore(i).retries < MAX_RETRIES
               THEN /\ cycles'[i].retries = CycleBefore(i).retries + 1
                    /\ cycles'[i].status = "pending"
                    /\ cycles'[i].timer =
                         BACKOFF_BASE_MS * 2 ^ cycles'[i].retries
               ELSE /\ cycles'[i].retries = CycleBefore(i).retries
                    /\ cycles'[i].status = "exhausted"
                    /\ cycles'[i].timer = 0
            /\ \A j \in 1..Len(cycles) : j # i => cycles'[j] = cycles[j]]_vars

\* with an event queued, register threw in the first attempt: not ready, the
\* event still queued, the first retry pending
C31_Witness ==
  /\ lastOp.op = "initMixpanel"
  /\ lastOp.threw = {"register"}
  /\ ~mixpanelInitialized
  /\ Len(eventBackupQueue) = 1
  /\ sinkLog = <<>>
  /\ Len(cycles) = 1 /\ cycles[1].retries = 1 /\ cycles[1].timer > 0

\* C32 (Spec): identifyUser called with the flag true calls mixpanel.identify
\* first and once; mixpanel.people.set follows, once, exactly when
\* userProperties was given and identify returned; no error leaves the call.
C32_IdentifyThenPeopleSet ==
  (lastOp.op = "identifyUser" /\ lastOp.readyBefore) =>
    /\ lastOp.escaped = "none"
    /\ Len(lastOp.sink) \in {1, 2}
    /\ lastOp.sink[1] = "identify"
    /\ Len(lastOp.sink) = 2 => lastOp.sink[2] = "people.set"
    /\ Len(lastOp.sink) = 2 <=> (lastOp.props /\ "identify" \notin lastOp.threw)

\* identifyUser was called with properties while ready and identify threw
C32_Witness ==
  /\ lastOp.op = "identifyUser"
  /\ lastOp.readyBefore
  /\ lastOp.props
  /\ lastOp.threw = {"identify"}
  /\ lastOp.sink = <<"identify">>

\* the categories events are filed under
UsedCategories == {"Session", "Decision Flow", "AI Interaction", "Feedback"}

C35_UseInviteCodeEffects ==
  [][\A t \in Callers :
       /\ (Call(t).pc \in {"idle", "validated"} /\ Call(t)'.pc = "done") <=>
            (Call(t).result = "none" /\ Call(t)'.result = "FALSE")
       /\ (Call(t).result = "none" /\ Call(t)'.result = "FALSE") =>
            /\ \/ Call(t)'.code \notin DOMAIN invite_codes
               \/ invite_codes[Call(t)'.code].uses_left = 0
               \/ ~invite_codes[Call(t)'.code].is_active
            /\ invite_codes' = invite_codes
            /\ invite_redemptions' = invite_redemptions
       /\ (Call(t).pc \in {"idle", "validated"} /\ Call(t)'.pc = "locked") =>
            /\ Call(t)'.code \in DOMAIN invite_codes
            /\ invite_codes[Call(t)'.code].uses_left > 0
            /\ invite_codes[Call(t)'.code].is_active
       /\ (Call(t).result = "none" /\ Call(t)'.result = "TRUE") =>
            /\ invite_codes' =
                 [invite_codes EXCEPT ![Call(t)'.code].uses_left = @ - 1]
            /\ invite_redemptions' =
                 Append(invite_redemptions,
                        [invite_code_id |-> Call(t)'.code,
                         redeemed_by |-> UserOf(t)])
    ]_vars

\* one call was refused on a withdrawn code that still had uses left, one on
\* a code used up, and the call that used it up returned TRUE
C35_Witness ==
  /\ \E t \in DOMAIN rpc :
       /\ rpc[t].result = "FALSE"
       /\ rpc[t].code \in DOMAIN invite_codes
       /\ ~invite_codes[rpc[t].code].is_active
       /\ invite_codes[rpc[t].code].uses_left > 0
  /\ \E t \in DOMAIN rpc :
       /\ rpc[t].result = "FALSE"
       /\ rpc[t].code \in DOMAIN invite_codes
       /\ invite_codes[rpc[t].code].is_active
       /\ invite_codes[rpc[t].code].uses_left = 0
  /\ \E t \in DOMAIN rpc :
       /\ rpc[t].result = "TRUE"
       /\ invite_codes[rpc[t].code].uses_left = 0
       /\ Len(invite_redemptions) = 1

\* C36 as stated (SpecValidate): a caller whose validate_invite_code call is
\* followed by its use_invite_code call for the same code, no other statement
\* having begun in between, gets TRUE from the one exactly when it gets TRUE
\* from the other.
C36_ValidateAgreesWithUse ==
  \A t \in DOMAIN visits :
    (rpc[t].pc = "done" /\ visits[t].alone) =>
      (visits[t].valid <=> rpc[t].result = "TRUE")

\* C36 amended (SpecValidate): validate_invite_code changes no table and answers
\* TRUE exactly for an active code with uses left; when no use_invite_code
\* call held the row of the code at that moment and no other statement began
\* in between, the use_invite_code call that follows and does not fail on its
\* INSERT returns TRUE exactly when validate_invite_code answered TRUE.
C36_AgreesWhenNoCallInProgress ==
  /\ [](\A t \in DOMAIN visits :
          (/\ rpc[t].pc = "done" /\ visits[t].alone /\ visits[t].quiet
           /\ rpc[t].result # "error") =>
            (visits[t].valid <=> rpc[t].result = "TRUE"))
  /\ [][\A t \in Callers :
          (Call(t).pc = "idle" /\ Call(t)'.pc = "validated") =>
            /\ invite_codes' = invite_codes
            /\ invite_redemptions' = invite_redemptions
            /\ visits'[t].valid <=>
                 /\ Call(t)'.code \in DOMAIN invite_codes
                 /\ invite_codes[Call(t)'.code].uses_left > 0
                 /\ invite_codes[Call(t)'.code].is_active
       ]_vars

\* a caller was answered TRUE with nothing in progress and then used the
\* code, and another was answered FALSE for a code used up and was refused
C36_Witness ==
  /\ \E t \in DOMAIN visits :
       /\ rpc[t].pc = "done" /\ visits[t].alone /\ visits[t].quiet
       /\ visits[t].valid /\ rpc[t].result = "TRUE"
  /\ \E t \in DOMAIN visits :
       /\ rpc[t].pc = "done" /\ visits[t].alone /\ visits[t].quiet
       /\ ~visits[t].valid /\ rpc[t].result = "FALSE"
       /\ rpc[t].code \in DOMAIN invite_codes

\* the users of the runs
Users == {UserOf(t) : t \in 1..MaxRuns}

\* the invite_redemptions rows of a user
RedeemedBy(u) ==
  {k \in 1..Len(invite_redemptions) : invite_redemptions[k].redeemed_by = u}

\* C37 (SpecOAuth): over any number of runs of the OAuth callback invite flow
\* for one user, interleaved at their awaits or not, invite_redemptions holds
\* at most one row for that user, and no step lowers uses_left of a code for a
\* user who has a profiles row.
C37_OneInviteUsePerUser ==
  /\ [](\A u \in Users : Cardinality(RedeemedBy(u)) <= 1)
  /\ [][\A t \in Callers :
          (Call(t).result = "none" /\ Call(t)'.result = "TRUE") =>
            ~HasProfile(UserOf(t))
       ]_vars

\* the runs of the user have all ended
RunsEnded(u) ==
  \A t \in DOMAIN flows : UserOf(t) = u => flows[t].pc = "end"

\* C38 (SpecOAuth): a run that ends with status 'success' for a user who had
\* no profile leaves a profiles row that records the invite code it used, and
\* once the runs of a user have ended the user has a profiles row if an
\* invite use was consumed for that user.
C38_RedemptionAndProfileTogether ==
  /\ \A t \in DOMAIN flows :
       (flows[t].status = "success" /\ ~flows[t].registered) =>
         /\ HasProfile(UserOf(t))
         /\ profiles[UserOf(t)].invite_code_used = Call(t).code
  /\ \A u \in Users :
       (RunsEnded(u) /\ RedeemedBy(u) # {}) => HasProfile(u)

====
